---- MODULE Spec2Model ----
(***************************************************************************)
(* Model of helloWorld.cpp: the OpenCL matmult kernel (one work-item per   *)
(* output column, a row of A staged into work-group local memory Al) and   *)
(* the host program main that selects a platform, sizes the work-group     *)
(* with ggt and drives the device API.                                     *)
(*                                                                         *)
(* SpecKernel runs the work-items of one kernel launch, one memory access  *)
(* per step, in every interleaving.  SpecHost runs main statement by       *)
(* statement with every status the device API may return.                  *)
(***************************************************************************)
EXTENDS Integers, Sequences, FiniteSets, TLC

\* ------------------------------------------------------------------ bounds
\* Matrix dimension of the kernel model (the source fixes DIM = DATA_SIZE = 1000).
DIM == 2
\* Seeds of the rand() stream that init_mat draws the inputs from.
MaxSeed == 2
\* Largest compute-unit count the device reports.
MaxCU == 24
\* Largest number of platforms the loader reports.
MaxPlatforms == 3

\* ------------------------------------------------------- program constants
DATA_SIZE == 1000
SIZEOF_PLATFORM_ID == 8
SIZEOF_FLOAT == 4
SIZEOF_CL_MEM == 8
FLT_MANT_DIG == 24
RAND_MOD == 10

Pow2(n) == 2 ^ n

Pos == 0 .. (DIM * DIM - 1)
Rows == 0 .. (DIM - 1)
Items == 0 .. (DIM - 1)

\* ------------------------------------------------------- integer arithmetic
Abs(x) == IF x < 0 THEN -x ELSE x

\* C++'s x % y on int: the quotient truncates toward zero, the remainder has
\* the sign of the dividend.
CRem(x, y) == IF x >= 0 THEN x % Abs(y) ELSE -((-x) % Abs(y))

\* A size_t is kept as its two 32-bit halves [hi, lo].
SizeT(n) == [hi |-> 0, lo |-> n]

\* Conversion of a size_t to int (the arguments of ggt): the low half; the
\* values main passes are below 2^31, where two's complement reads them as
\* they are.
ToInt(u) == u.lo

\* Conversion of ggt's int, which is not negative for arguments that are not,
\* to size_t (the assignment to local[0]).
ToSizeT(n) == SizeT(n)

\* ggt with `if (y)` for `while (y)`: the loop body once, without the remainder.
ggt_once(x, y) == IF y = 0 THEN x ELSE y

\* int ggt(int x, int y): Euclid's algorithm on C++ ints.
RECURSIVE ggt(_, _)
ggt(x, y) == IF y = 0 THEN x ELSE ggt(y, CRem(x, y))

\* ------------------------------------------------------------ float (binary32)
\* Round an integer to the nearest binary32 value, ties to even: integers of
\* magnitude up to 2^24 are exact, larger ones keep 24 significant bits.
RECURSIVE Ulp(_, _)
Ulp(m, u) == IF m < Pow2(FLT_MANT_DIG) * u THEN u ELSE Ulp(m, 2 * u)

Fl(x) ==
    LET m == Abs(x)
        u == Ulp(m, 1)
        q == m \div u
        r == m % u
        up == (2 * r > u) \/ (2 * r = u /\ q % 2 = 1)
        rm == IF up THEN (q + 1) * u ELSE q * u
    IN  IF x < 0 THEN -rm ELSE rm

FMul(a, b) == Fl(a * b)
FAdd(a, b) == Fl(a + b)

\* ------------------------------------------------------------------ inputs
\* rand(): a linear congruential stream; srand is never called, so the stream
\* is fixed by the C library, which the seed stands for.
RECURSIVE rand(_, _)
rand(seed, n) == IF n = 0 THEN seed ELSE (5 * rand(seed, n - 1) + 3) % 16

\* init_mat fills row * col consecutive floats with rand() % 10; `drawn` is the
\* number of rand() calls made before.
init_mat(seed, drawn) == [p \in Pos |-> rand(seed, drawn + p + 1) % RAND_MOD]

\* The serial reference: serialC[i][j] += A[i][k] * B[k][j] for k = 0 .. n-1,
\* accumulated in float from the zero that calloc leaves.
RECURSIVE SerialSum(_, _, _, _, _)
SerialSum(a, b, i, j, n) ==
    IF n = 0 THEN 0
    ELSE FAdd(SerialSum(a, b, i, j, n - 1),
              FMul(a[i * DIM + (n - 1)], b[(n - 1) * DIM + j]))

serialC(a, b) == [p \in Pos |-> SerialSum(a, b, p \div DIM, p % DIM, DIM)]

compare_mat(x, y) == \A i \in Rows : \A j \in Rows : x[i * DIM + j] = y[i * DIM + j]

\* ------------------------------------------------------------------- state
VARIABLES
    \* host memory: the input matrices A and B (flat, row-major)
    A, B,
    \* device global memory: the buffers Ap, Bp, Cp
    gmem,
    \* get_local_size(0) of the launch
    nl,
    \* __local float* Al of each work-group, and the indices of it written so far
    Al, AlSet,
    \* per work-item (indexed by get_global_id(0)): position, i, k, sum
    wpc, wi, wk, wsum,
    \* record of the global stores the work-items have made: <<buffer, index,
    \* global id>>, and how often each element of C was stored
    stores, nstores,
    \* host program: position in main, err, what the loader and device report
    pc, err, num_of_platforms, names, platform_name, idx, nvidia_platform,
    cu, local0,
    \* the platforms buffer: bytes allocated, and bytes of it accessed so far
    allocBytes, touched,
    \* record of the device API calls: the platform indices handed to
    \* clGetDeviceIDs, whether a call returned a failure, whether a call was
    \* issued after a failure, whether a diagnostic was printed
    tried, apiFailed, lateCall, printed

kvars == <<A, B, gmem, nl, Al, AlSet, wpc, wi, wk, wsum, stores, nstores>>
hvars == <<pc, err, num_of_platforms, names, platform_name, idx, nvidia_platform,
           cu, local0, allocBytes, touched, tried, apiFailed, lateCall, printed>>
vars == <<kvars, hvars>>

\* --------------------------------------------------------------- the kernel
\* Contents an uninitialized float may have: a harmless one and one that is no
\* product of two matrix entries.
UninitVals == {0, -1}

\* clSetKernelArg(kernel, 3, sizeof(cl_mem)*DATA_SIZE, NULL): floats in Al.
AlLen == (SIZEOF_CL_MEM * DIM) \div SIZEOF_FLOAT
AlIdx == 0 .. (AlLen - 1)

\* Work-group and local id of the work-item with global id j.
get_group_id(j) == j \div nl
get_local_id(j) == j % nl
Groups == 0 .. ((DIM \div nl) - 1)
GroupOf(g) == {w \in Items : get_group_id(w) = g}

\* Element of C that the work-item with global id j stores for row i.
\* (StoreIndex_T: row and column exchanged, C[j * DIM + i].)
StoreIndex_T(i, j) == j * DIM + i
StoreIndex(i, j) == i * DIM + j

\* Next index of the strided staging loop.
StageStride(k) == k + nl

\* What a read of Al[k] by a work-item of group g may return.
AlRead(g, k) == IF k \in AlSet[g] THEN {Al[g][k]} ELSE UninitVals

\* The state of the host input and the device when the kernel starts.
KernelStart(a, b, size, c0) ==
    /\ A = a
    /\ B = b
    /\ gmem = [A |-> a, B |-> b, C |-> [p \in Pos |-> c0]]
    /\ nl = size
    /\ Al = [g \in 0 .. ((DIM \div size) - 1) |-> [k \in AlIdx |-> 0]]
    /\ AlSet = [g \in 0 .. ((DIM \div size) - 1) |-> {}]
    /\ wpc = [w \in Items |-> "stage"]
    /\ wi = [w \in Items |-> 0]
    /\ wk = [w \in Items |-> w % size]
    /\ wsum = [w \in Items |-> 0]
    /\ stores = {}
    /\ nstores = [p \in Pos |-> 0]

\* for (k = il; k < DIM; k += nl) Al[k] = A[i*DIM + k];  one store per step;
\* leaving the loop runs sum = 0.f and k = 0.
Stage(w) ==
    /\ wpc[w] = "stage"
    /\ wk[w] < DIM
    /\ LET g == get_group_id(w)
           k == wk[w]
           kn == StageStride(k)
       IN  /\ Al' = [Al EXCEPT ![g][k] = gmem.A[wi[w] * DIM + k]]
           /\ AlSet' = [AlSet EXCEPT ![g] = @ \cup {k}]
           /\ IF kn < DIM
              THEN /\ wk' = [wk EXCEPT ![w] = kn]
                   /\ UNCHANGED <<wpc, wsum>>
              ELSE /\ wk' = [wk EXCEPT ![w] = 0]
                   /\ wsum' = [wsum EXCEPT ![w] = 0]
                   /\ wpc' = [wpc EXCEPT ![w] = "dot"]
    /\ UNCHANGED <<A, B, gmem, nl, wi, stores, nstores, hvars>>

\* for (k = 0; k < DIM; k++) sum += Al[k] * B[k*DIM + j];  one read of Al per step.
Dot(w) ==
    /\ wpc[w] = "dot"
    /\ wk[w] < DIM
    /\ \E v \in AlRead(get_group_id(w), wk[w]) :
          wsum' = [wsum EXCEPT ![w] = FAdd(@, FMul(v, gmem.B[wk[w] * DIM + w]))]
    /\ IF wk[w] + 1 < DIM
       THEN /\ wk' = [wk EXCEPT ![w] = @ + 1]
            /\ UNCHANGED wpc
       ELSE /\ wk' = [wk EXCEPT ![w] = DIM]
            /\ wpc' = [wpc EXCEPT ![w] = "store"]
    /\ UNCHANGED <<A, B, gmem, nl, Al, AlSet, wi, stores, nstores, hvars>>

\* C[i * DIM + j] = sum;  then i++ and the next row, or the end of the kernel.
Store(w) ==
    /\ wpc[w] = "store"
    /\ LET p == StoreIndex(wi[w], w)
       IN  /\ gmem' = [gmem EXCEPT !.C[p] = wsum[w]]
           /\ stores' = stores \cup {<<"C", p, w>>}
           /\ nstores' = [nstores EXCEPT ![p] = @ + 1]
    /\ wi' = [wi EXCEPT ![w] = @ + 1]
    /\ IF wi[w] + 1 < DIM
       THEN /\ wpc' = [wpc EXCEPT ![w] = "stage"]
            /\ wk' = [wk EXCEPT ![w] = get_local_id(w)]
       ELSE /\ wpc' = [wpc EXCEPT ![w] = "done"]
            /\ UNCHANGED wk
    /\ UNCHANGED <<A, B, nl, Al, AlSet, wsum, hvars>>

\* The host program is not part of a kernel run.
HostIdle ==
    /\ pc = "idle"
    /\ err = "unset"
    /\ num_of_platforms = 0
    /\ names = <<>>
    /\ platform_name = "uninit"
    /\ idx = 0
    /\ nvidia_platform = 0
    /\ cu = 0
    /\ local0 = SizeT(0)
    /\ allocBytes = 0
    /\ touched = 0
    /\ tried = {}
    /\ apiFailed = FALSE
    /\ lateCall = FALSE
    /\ printed = FALSE

\* All work-items of the launch have run to the end of the kernel.
KernelDone == \A w \in Items : wpc[w] = "done"

KernelInit ==
    /\ \E seed \in 0 .. MaxSeed, units \in 1 .. MaxCU, c0 \in UninitVals :
          KernelStart(init_mat(seed, 0), init_mat(seed, DIM * DIM),
                      ggt(DIM, units), c0)
    /\ HostIdle

KernelNext ==
    \/ \E w \in Items : Stage(w)
    \/ \E w \in Items : Dot(w)
    \/ \E w \in Items : Store(w)

SpecKernel == KernelInit /\ [][KernelNext]_vars

\* A launch whose B is the matrix init_mat fills when every rand() % 10 is 0:
\* every sum is then 0 whatever a work-item reads from Al, which leaves the
\* interleavings of the stores and nothing else to explore.
ZeroMat == [p \in Pos |-> 0]

StoresInit ==
    /\ \E seed \in 0 .. MaxSeed, units \in 1 .. MaxCU, c0 \in UninitVals :
          KernelStart(init_mat(seed, 0), ZeroMat, ggt(DIM, units), c0)
    /\ HostIdle

SpecStores == StoresInit /\ [][KernelNext]_vars

\* ----------------------------------------------------------- the host: main
\* What a device API call may return: CL_SUCCESS or an error code.
Status == {"CL_SUCCESS", "CL_ERROR"}

\* Contents the uninitialized upper half of local[0] may have: clGetDeviceInfo
\* stores a cl_uint into the lower half of the size_t.
UninitHi == {0, 1, 65535}

Max(a, b) == IF a > b THEN a ELSE b

\* The straight-line rest of main after the work-group size is set: the place,
\* the call, and what main does with the status ("checked": assigned to err
\* and tested; "assigned": assigned to err, never tested; "dropped": ignored).
Calls == <<
    [at |-> "L227", api |-> "clCreateContext",           kind |-> "checked"],
    [at |-> "L234", api |-> "clCreateCommandQueue",      kind |-> "checked"],
    [at |-> "L241", api |-> "clCreateProgramWithSource", kind |-> "checked"],
    [at |-> "L248", api |-> "clBuildProgram",            kind |-> "checked"],
    [at |-> "L255", api |-> "clCreateKernel",            kind |-> "checked"],
    [at |-> "L272", api |-> "clCreateBuffer",            kind |-> "assigned"],
    [at |-> "L273", api |-> "clCreateBuffer",            kind |-> "assigned"],
    [at |-> "L274", api |-> "clCreateBuffer",            kind |-> "assigned"],
    [at |-> "L276", api |-> "clEnqueueWriteBuffer",      kind |-> "dropped"],
    [at |-> "L277", api |-> "clEnqueueWriteBuffer",      kind |-> "dropped"],
    [at |-> "L279", api |-> "clSetKernelArg",            kind |-> "dropped"],
    [at |-> "L280", api |-> "clSetKernelArg",            kind |-> "dropped"],
    [at |-> "L281", api |-> "clSetKernelArg",            kind |-> "dropped"],
    [at |-> "L282", api |-> "clSetKernelArg",            kind |-> "dropped"],
    [at |-> "L286", api |-> "clEnqueueNDRangeKernel",    kind |-> "dropped"],
    [at |-> "L288", api |-> "clFinish",                  kind |-> "dropped"],
    [at |-> "L290", api |-> "clEnqueueReadBuffer",       kind |-> "dropped"],
    [at |-> "L300", api |-> "clGetEventProfilingInfo",   kind |-> "dropped"],
    [at |-> "L301", api |-> "clGetEventProfilingInfo",   kind |-> "dropped"] >>

CallsAt == {Calls[n].at : n \in 1 .. Len(Calls)}
CallIndex(at) == CHOOSE n \in 1 .. Len(Calls) : Calls[n].at = at
CallKind(at) == Calls[CallIndex(at)].kind
CallNext(at) == IF CallIndex(at) = Len(Calls) THEN "L304" ELSE Calls[CallIndex(at) + 1].at

\* A device API call returns st.
Call(st) ==
    /\ lateCall' = (lateCall \/ apiFailed)
    /\ apiFailed' = (apiFailed \/ st # "CL_SUCCESS")

\* printf of the diagnostic and return 0.
Fail ==
    /\ printed' = TRUE
    /\ pc' = "exit"

\* strstr(platform_name, "NVIDIA") != NULL, for the buffer contents `buf`.
strstr_NVIDIA(buf) == IF buf = "uninit" THEN BOOLEAN ELSE {buf = "nvidia"}

KernelIdle ==
    /\ A = ZeroMat
    /\ B = ZeroMat
    /\ gmem = [A |-> ZeroMat, B |-> ZeroMat, C |-> ZeroMat]
    /\ nl = 1
    /\ Al = [g \in Items |-> [k \in AlIdx |-> 0]]
    /\ AlSet = [g \in Items |-> {}]
    /\ wpc = [w \in Items |-> "idle"]
    /\ wi = [w \in Items |-> 0]
    /\ wk = [w \in Items |-> 0]
    /\ wsum = [w \in Items |-> 0]
    /\ stores = {}
    /\ nstores = [p \in Pos |-> 0]

HostInit ==
    /\ pc = "L177"
    /\ err = "unset"
    /\ num_of_platforms = 0
    /\ names = <<>>
    /\ platform_name = "uninit"
    /\ idx = 0
    /\ nvidia_platform = 0
    /\ cu = 0
    /\ local0 = SizeT(0)
    /\ allocBytes = 0
    /\ touched = 0
    /\ tried = {}
    /\ apiFailed = FALSE
    /\ lateCall = FALSE
    /\ printed = FALSE
    /\ KernelIdle

\* err = clGetPlatformIDs(0, NULL, &num_of_platforms); if (err != CL_SUCCESS) ...
GetPlatformCount ==
    /\ pc = "L177"
    /\ \E st \in Status, n \in 0 .. MaxPlatforms :
          /\ Call(st)
          /\ err' = st
          /\ IF st # "CL_SUCCESS"
             THEN Fail /\ UNCHANGED num_of_platforms
             ELSE /\ num_of_platforms' = n
                  /\ pc' = "L184"
                  /\ UNCHANGED printed
    /\ UNCHANGED <<names, platform_name, idx, nvidia_platform, cu, local0,
                   allocBytes, touched, tried, kvars>>

\* platforms = (cl_platform_id*)malloc(num_of_platforms);
MallocBytes(n) == n

AllocPlatforms ==
    /\ pc = "L184"
    /\ allocBytes' = MallocBytes(num_of_platforms)
    /\ pc' = "L185"
    /\ UNCHANGED <<err, num_of_platforms, names, platform_name, idx, nvidia_platform,
                   cu, local0, touched, tried, apiFailed, lateCall, printed, kvars>>

\* err = clGetPlatformIDs(num_of_platforms, platforms, NULL): stores that many
\* ids into platforms; with num_entries 0 and platforms not NULL it returns
\* CL_INVALID_VALUE.  Then int nvidia_platform = 0 and the loop's i = 0.
GetPlatformIDs ==
    /\ pc = "L185"
    /\ \E st \in Status :
          /\ num_of_platforms = 0 => st = "CL_ERROR"
          /\ Call(st)
          /\ err' = st
          /\ IF st # "CL_SUCCESS"
             THEN Fail /\ UNCHANGED <<names, touched>>
             ELSE /\ \E ns \in [1 .. num_of_platforms -> {"nvidia", "other"}] : names' = ns
                  /\ touched' = num_of_platforms * SIZEOF_PLATFORM_ID
                  /\ pc' = "L195"
                  /\ UNCHANGED printed
    /\ idx' = 0
    /\ nvidia_platform' = 0
    /\ UNCHANGED <<num_of_platforms, platform_name, cu, local0, allocBytes, tried, kvars>>

\* for (unsigned int i = 0; i < num_of_platforms; i++)
LoopTest ==
    /\ pc = "L195"
    /\ pc' = IF idx < num_of_platforms THEN "L197" ELSE "L211"
    /\ UNCHANGED <<err, num_of_platforms, names, platform_name, idx, nvidia_platform,
                   cu, local0, allocBytes, touched, tried, apiFailed, lateCall,
                   printed, kvars>>

\* The loop body: clGetPlatformInfo(platforms[i], CL_PLATFORM_NAME, ...) with its
\* status ignored (on failure platform_name keeps what it held), the test of
\* the err that clGetPlatformIDs left, and the strstr with its break.
GetPlatformInfo ==
    /\ pc = "L197"
    /\ touched' = Max(touched, (idx + 1) * SIZEOF_PLATFORM_ID)
    /\ \E st \in Status :
          /\ Call(st)
          /\ platform_name' = IF st = "CL_SUCCESS" THEN names[idx + 1] ELSE platform_name
    /\ IF err # "CL_SUCCESS"
       THEN Fail /\ UNCHANGED <<idx, nvidia_platform>>
       ELSE /\ UNCHANGED printed
            /\ \E found \in strstr_NVIDIA(platform_name') :
                  IF found
                  THEN /\ nvidia_platform' = idx
                       /\ pc' = "L211"
                       /\ UNCHANGED idx
                  ELSE /\ idx' = idx + 1
                       /\ pc' = "L195"
                       /\ UNCHANGED nvidia_platform
    /\ UNCHANGED <<err, num_of_platforms, names, cu, local0, allocBytes, tried, kvars>>

\* err = clGetDeviceIDs(platforms[nvidia_platform], CL_DEVICE_TYPE_GPU, ...)
GetDeviceIDs ==
    /\ pc = "L211"
    /\ touched' = Max(touched, (nvidia_platform + 1) * SIZEOF_PLATFORM_ID)
    /\ tried' = tried \cup {nvidia_platform}
    /\ \E st \in Status :
          /\ Call(st)
          /\ err' = st
          /\ IF st # "CL_SUCCESS"
             THEN Fail
             ELSE pc' = "L218" /\ UNCHANGED printed
    /\ UNCHANGED <<num_of_platforms, names, platform_name, idx, nvidia_platform,
                   cu, local0, allocBytes, kvars>>

\* err = clGetDeviceInfo(device_id, CL_DEVICE_MAX_COMPUTE_UNITS, sizeof(size_t),
\* local, NULL): the cl_uint count lands in the low half of local[0].
GetDeviceInfo ==
    /\ pc = "L218"
    /\ \E st \in Status, units \in 1 .. MaxCU, hi \in UninitHi :
          /\ Call(st)
          /\ err' = st
          /\ IF st # "CL_SUCCESS"
             THEN Fail /\ UNCHANGED <<cu, local0>>
             ELSE /\ cu' = units
                  /\ local0' = [hi |-> hi, lo |-> units]
                  /\ pc' = "L224"
                  /\ UNCHANGED printed
    /\ UNCHANGED <<num_of_platforms, names, platform_name, idx, nvidia_platform,
                   allocBytes, touched, tried, kvars>>

\* local[0] = ggt(global[0], local[0]);  with global[0] = DATA_SIZE
SetLocalSize ==
    /\ pc = "L224"
    /\ local0' = ToSizeT(ggt(ToInt(SizeT(DATA_SIZE)), ToInt(local0)))
    /\ pc' = "L227"
    /\ UNCHANGED <<err, num_of_platforms, names, platform_name, idx, nvidia_platform,
                   cu, allocBytes, touched, tried, apiFailed, lateCall, printed, kvars>>

\* x = clCreate...(..., &err) or err = clBuildProgram(...); if (err != CL_SUCCESS) ...
CheckedCall ==
    /\ pc \in CallsAt
    /\ CallKind(pc) = "checked"
    /\ \E st \in Status :
          /\ Call(st)
          /\ err' = st
          /\ IF st # "CL_SUCCESS"
             THEN Fail
             ELSE pc' = CallNext(pc) /\ UNCHANGED printed
    /\ UNCHANGED <<num_of_platforms, names, platform_name, idx, nvidia_platform,
                   cu, local0, allocBytes, touched, tried, kvars>>

\* Ap = clCreateBuffer(context, ..., NULL, &err);  err is not looked at.
AssignedCall ==
    /\ pc \in CallsAt
    /\ CallKind(pc) = "assigned"
    /\ \E st \in Status :
          /\ Call(st)
          /\ err' = st
    /\ pc' = CallNext(pc)
    /\ UNCHANGED <<num_of_platforms, names, platform_name, idx, nvidia_platform,
                   cu, local0, allocBytes, touched, tried, printed, kvars>>

\* clEnqueueWriteBuffer(...); clSetKernelArg(...); clEnqueueNDRangeKernel(...);
\* clFinish(...); clEnqueueReadBuffer(...); clGetEventProfilingInfo(...);
DroppedCall ==
    /\ pc \in CallsAt
    /\ CallKind(pc) = "dropped"
    /\ \E st \in Status : Call(st)
    /\ pc' = CallNext(pc)
    /\ UNCHANGED <<err, num_of_platforms, names, platform_name, idx, nvidia_platform,
                   cu, local0, allocBytes, touched, tried, printed, kvars>>

\* The comparison, the releases and return 0.
Finish ==
    /\ pc = "L304"
    /\ pc' = "exit"
    /\ UNCHANGED <<err, num_of_platforms, names, platform_name, idx, nvidia_platform,
                   cu, local0, allocBytes, touched, tried, apiFailed, lateCall,
                   printed, kvars>>

HostNext ==
    \/ GetPlatformCount
    \/ AllocPlatforms
    \/ GetPlatformIDs
    \/ LoopTest
    \/ GetPlatformInfo
    \/ GetDeviceIDs
    \/ GetDeviceInfo
    \/ SetLocalSize
    \/ CheckedCall
    \/ AssignedCall
    \/ DroppedCall
    \/ Finish

SpecHost == HostInit /\ [][HostNext]_vars

\* ------------------------------------------------- progress of a work-item
\* A work-item's place in the kernel as a number that only grows: three
\* phases (staging, dot product, store) for each row i.
Progress(phase, i) ==
    CASE phase = "stage" -> 3 * i
      [] phase = "dot"   -> 3 * i + 1
      [] phase = "store" -> 3 * i + 2
      [] OTHER           -> 3 * DIM

\* w has made all its staging writes of row i / all its reads of Al for row i.
StagedRow(w, i) == Progress(wpc[w], wi[w]) >= 3 * i + 1
ReadRow(w, i) == Progress(wpc[w], wi[w]) >= 3 * i + 2
AllStaged(g, i) == \A m \in GroupOf(g) : StagedRow(m, i)
AllStagedNext(g, i) == \A m \in GroupOf(g) : Progress(wpc'[m], wi'[m]) >= 3 * i + 1

\* The step is a staging write / a read of Al by work-item w.
StageStep(w) == wpc[w] = "stage" /\ (wk'[w] # wk[w] \/ wpc'[w] # wpc[w])
DotStep(w) == wpc[w] = "dot" /\ wk'[w] # wk[w]

\* The greatest common divisor, by its definition.
Divides(d, n) == n % d = 0
Gcd(a, b) == CHOOSE d \in 1 .. a :
                /\ Divides(d, a) /\ Divides(d, b)
                /\ \A e \in 1 .. a : (Divides(e, a) /\ Divides(e, b)) => e <= d

\* Lowest index (from 0) of a platform whose name contains "NVIDIA", else 0.
FirstNvidia(ns) ==
    IF \E n \in 1 .. Len(ns) : ns[n] = "nvidia"
    THEN (CHOOSE n \in 1 .. Len(ns) :
             ns[n] = "nvidia" /\ \A m \in 1 .. (n - 1) : ns[m] # "nvidia") - 1
    ELSE 0

\* ------------------------------------------------------------------ claims

\* C1: once the matmult kernel has completed, the matrix C read back from the
\* device equals the serial reference element-wise, for every work-group size
\* and every interleaving: compare_mat(C, serialC) returns true.
C1_GpuEqualsSerial == KernelDone => compare_mat(gmem.C, serialC(A, B))

\* C2: no work-item reads Al[k] in its dot-product loop for row i until every
\* work-item of its group has finished its staging writes of row i, and every
\* value it reads from Al[k] during row i equals A[i][k].
C2_StagingBeforeUse ==
    [][\A w \in Items :
          DotStep(w) =>
             /\ AllStaged(get_group_id(w), wi[w])
             /\ wk[w] \in AlSet[get_group_id(w)]
             /\ Al[get_group_id(w)][wk[w]] = A[wi[w] * DIM + wk[w]]]_vars

\* C3: the work-group size passed to clEnqueueNDRangeKernel is the greatest
\* common divisor of global[0] = DATA_SIZE and the reported compute-unit count,
\* is at least 1 and divides DATA_SIZE without remainder.
C3_LocalSizeDividesGlobal ==
    pc \in CallsAt =>
       /\ local0 = SizeT(Gcd(DATA_SIZE, cu))
       /\ local0.lo >= 1
       /\ DATA_SIZE % local0.lo = 0

\* C3 witness: the kernel is about to be enqueued with a work-group size that
\* is neither 1 nor the reported count.
C3_Witness ==
    /\ pc = "L286"
    /\ local0.lo > 1
    /\ local0.lo < cu

\* C4: whenever a device API call returns a non-success status the program
\* prints a diagnostic and returns at once, and no device API call is issued
\* after one has failed.
C4_FailureStopsProgram ==
    /\ apiFailed => (pc = "exit" /\ printed)
    /\ ~lateCall

\* C5: every partial sum accumulated for an element of C, in the serial loop
\* and in the kernel, is a non-negative integer of at most 81 * dimension,
\* and 81 * DATA_SIZE is below 2^24, so every partial sum is exact in float.
C5_PartialSumsExact ==
    LET top == (RAND_MOD - 1) * (RAND_MOD - 1)
    IN  /\ top * DATA_SIZE < Pow2(FLT_MANT_DIG)
        /\ \A i \in Rows, j \in Rows, n \in 0 .. DIM :
              SerialSum(A, B, i, j, n) \in 0 .. (top * n)
        /\ \A w \in Items : wsum[w] \in 0 .. (top * DIM)

\* C6: no work-item writes row i+1 into Al while a work-item of its group has
\* not finished reading Al for row i.
C6_ReadsBeforeRestaging ==
    [][\A w \in Items :
          (StageStep(w) /\ wi[w] >= 1) =>
             \A m \in GroupOf(get_group_id(w)) : ReadRow(m, wi[w] - 1)]_vars

\* C7: the strided staging loop partitions 0..DIM-1 among the work-items of a
\* group (index k is written by the work-item with local id k mod nl, with
\* the value A[i*DIM+k]), no index of Al outside 0..DIM-1 is written or read,
\* and once all work-items of the group have finished staging row i,
\* Al[k] = A[i][k] for all k.
C7_StagingPartition ==
    [][/\ \A w \in Items :
             StageStep(w) =>
                /\ wk[w] \in Rows
                /\ wk[w] % nl = get_local_id(w)
                /\ Al'[get_group_id(w)][wk[w]] = A[wi[w] * DIM + wk[w]]
                /\ \A k \in AlIdx \ {wk[w]} :
                      Al'[get_group_id(w)][k] = Al[get_group_id(w)][k]
       /\ \A w \in Items : DotStep(w) => wk[w] \in Rows
       /\ \A g \in Groups : \A i \in Rows :
             (~AllStaged(g, i) /\ AllStagedNext(g, i)) =>
                \A k \in Rows : Al'[g][k] = A[i * DIM + k]]_vars

\* C8: the work-item with global id j stores exactly the elements C[i][j], each
\* once, and nothing else in global memory; no element of C is stored twice,
\* and when all work-items have finished every element of C was stored once.
C8_StoresPartitionByColumn ==
    /\ gmem.A = A
    /\ gmem.B = B
    /\ \A s \in stores : s[1] = "C" /\ s[2] \in Pos /\ s[2] % DIM = s[3]
    /\ \A w \in Items :
          {s[2] : s \in {t \in stores : t[3] = w}} = {i * DIM + w : i \in 0 .. (wi[w] - 1)}
    /\ \A p \in Pos : nstores[p] <= 1
    /\ \A p \in Pos : nstores[p] = Cardinality({s \in stores : s[2] = p})
    /\ KernelDone => \A p \in Pos : nstores[p] = 1

\* C8 witness: a launch with several work-items in a work-group has finished
\* and every element of C has been stored.
C8_Witness ==
    /\ KernelDone
    /\ nl > 1
    /\ \A p \in Pos : nstores[p] = 1
    /\ Cardinality(stores) = DIM * DIM

\* C9: the platform the GPU device is requested from is the one with the
\* lowest index whose name contains "NVIDIA", or index 0 if there is none, and
\* no other platform is ever tried.
C9_FirstNvidiaPlatform == tried \subseteq {FirstNvidia(names)}

\* C10: the buffer allocated for platforms holds num_of_platforms ids, so the
\* ids clGetPlatformIDs stores and the reads of platforms[i] stay within it.
C10_PlatformsBufferFits ==
    /\ pc \notin {"L177", "L184"} => allocBytes >= num_of_platforms * SIZEOF_PLATFORM_ID
    /\ touched <= allocBytes

====
